---- MODULE Spec2Model ----
(***************************************************************************)
(* The template composition engine of package renders: Load /              *)
(* LoadWithFuncMap, loadTemplates (directory walk, resolver, compositor),  *)
(* add (recursive includer), the helpers of utils.go, and compile of       *)
(* macaron.go, which publishes the result in the global templates.         *)
(*                                                                         *)
(* Strings are sequences of one-character strings.  A template source is a *)
(* sequence of items: the matches of reTemplateTag and reDefineTag in the  *)
(* text, plain text, and text the template parser rejects.                 *)
(***************************************************************************)
EXTENDS Integers, Sequences, FiniteSets, TLC

VARIABLES
    world,                \* the directory tree on disk (sources of its files)
    callers,              \* the goroutines that call compile
    configs,              \* the Options values they call it with
    cache,                \* renders.go:14
    regularTemplateDefs,  \* renders.go:15
    basePath,             \* renders.go:16
    exts,                 \* renders.go:17
    lock,                 \* renders.go:18, the caller holding it or NoOne
    templates,            \* macaron.go:37, the published mapping
    pc,                   \* each caller's position in compile/Load/loadTemplates
    opt,                  \* each caller's Options argument
    localTemplates,       \* each caller's local map of loadTemplates (renders.go:47)
    walkList,             \* each caller's remaining entries of filepath.Walk
    ret,                  \* each caller's pending return value of Load
    calls,                \* number of compile calls started so far
    trouble,              \* what has gone wrong in each caller's current Load
    history,              \* one record per finished Load, oldest first
    lastPass              \* record of the most recent compile pass

vars == <<world, callers, configs, cache, regularTemplateDefs, basePath, exts, lock,
          templates, pc, opt, localTemplates, walkList, ret, calls, trouble,
          history, lastPass>>

----------------------------------------------------------------------------
(* Bounds *)

\* compile calls in one behaviour
MaxCalls == 3
\* recursion budget of add; a call that needs more has not terminated
MaxDepth == 6

\* fragments in a cache handed to the resolver alone
MaxFrags == 2
\* items in the source of such a fragment
MaxSrc == 2

----------------------------------------------------------------------------
(* Strings *)

Separator == "/"

Digits == <<"0", "1", "2", "3", "4", "5", "6", "7", "8", "9">>

RECURSIVE Itoa(_)
\* fmt.Sprintf("%d", n) for n >= 0
Itoa(n) ==
    IF n < 10 THEN <<Digits[n + 1]>>
    ELSE Itoa(n \div 10) \o <<Digits[(n % 10) + 1]>>

\* s[i:] of Go (i counted from 0)
SliceFrom(s, i) == SubSeq(s, i + 1, Len(s))

stringsContains(s, sub) ==
    \E i \in 0..(Len(s) - Len(sub)) : SubSeq(s, i + 1, i + Len(sub)) = sub

RECURSIVE ExtFrom(_, _)
ExtFrom(path, i) ==
    IF i < 1 THEN <<>>
    ELSE IF path[i] = Separator THEN <<>>
    ELSE IF path[i] = "." THEN SubSeq(path, i, Len(path))
    ELSE ExtFrom(path, i - 1)

\* filepath.Ext: the suffix from the last dot of the last element
filepathExt(path) == ExtFrom(path, Len(path))

RECURSIVE SplitFrom(_, _, _)
\* the elements of path between separators, empty elements included
SplitFrom(path, i, cur) ==
    IF i > Len(path) THEN <<cur>>
    ELSE IF path[i] = Separator THEN <<cur>> \o SplitFrom(path, i + 1, <<>>)
    ELSE SplitFrom(path, i + 1, Append(cur, path[i]))

RECURSIVE CleanElems(_, _, _)
\* filepath.Clean on elements: drops "" and ".", resolves ".."
CleanElems(els, out, rooted) ==
    IF els = <<>> THEN out
    ELSE LET e == Head(els) IN
         IF e = <<>> \/ e = <<".">> THEN CleanElems(Tail(els), out, rooted)
         ELSE IF e = <<".", ".">>
              THEN IF out # <<>> /\ out[Len(out)] # <<".", ".">>
                   THEN CleanElems(Tail(els), SubSeq(out, 1, Len(out) - 1), rooted)
                   ELSE IF rooted THEN CleanElems(Tail(els), out, rooted)
                   ELSE CleanElems(Tail(els), Append(out, e), rooted)
         ELSE CleanElems(Tail(els), Append(out, e), rooted)

RECURSIVE JoinElems(_)
JoinElems(els) ==
    IF els = <<>> THEN <<>>
    ELSE IF Len(els) = 1 THEN els[1]
    ELSE els[1] \o <<Separator>> \o JoinElems(Tail(els))

IsRooted(p) == p # <<>> /\ p[1] = Separator

Elems(p) == CleanElems(SplitFrom(p, 1, <<>>), <<>>, IsRooted(p))

\* the cleaned path of the cleaned elements els
CleanPath(rooted, els) ==
    IF rooted THEN <<Separator>> \o JoinElems(els)
    ELSE IF els = <<>> THEN <<".">>
    ELSE JoinElems(els)

filepathClean(p) == CleanPath(IsRooted(p), Elems(p))

\* filepath.Join of two elements: empty elements are ignored
filepathJoin(a, b) ==
    IF a = <<>> /\ b = <<>> THEN <<>>
    ELSE filepathClean(IF a = <<>> THEN b
                       ELSE IF b = <<>> THEN a
                       ELSE a \o <<Separator>> \o b)

RECURSIVE CommonLen(_, _)
CommonLen(x, y) ==
    IF x = <<>> \/ y = <<>> THEN 0
    ELSE IF Head(x) = Head(y) THEN 1 + CommonLen(Tail(x), Tail(y))
    ELSE 0

\* filepath.Rel on the cleaned elements b of the base and t of the target,
\* n of which they have in common
RelElems(b, t, n, bRooted, tRooted) ==
    IF b = t /\ bRooted = tRooted
    THEN [err |-> FALSE, val |-> <<".">>]
    ELSE IF bRooted # tRooted
    THEN [err |-> TRUE, val |-> <<>>]
    ELSE IF n < Len(b) /\ b[n + 1] = <<".", ".">>
    THEN [err |-> TRUE, val |-> <<>>]
    ELSE [err |-> FALSE,
          val |-> JoinElems([i \in 1..(Len(b) - n) |-> <<".", ".">>]
                            \o SubSeq(t, n + 1, Len(t)))]

RelOf(b, t, bRooted, tRooted) == RelElems(b, t, CommonLen(b, t), bRooted, tRooted)

\* filepath.Rel: [err, val]
filepathRel(base, targ) ==
    RelOf(Elems(base), Elems(targ), IsRooted(base), IsRooted(targ))

\* filepath.ToSlash: every Separator becomes a slash
filepathToSlash(s) == [i \in 1..Len(s) |-> IF s[i] = Separator THEN "/" ELSE s[i]]

----------------------------------------------------------------------------
(* Template sources *)

Tmpl(target) == [k |-> "template", n |-> target]
Def(name) == [k |-> "define", n |-> name]
Text == [k |-> "text", n |-> <<>>]
\* text that html/template rejects, e.g. an unclosed action
Bad == [k |-> "bad", n |-> <<>>]
\* an action that calls the function f, e.g. {{f}}
Call(f) == [k |-> "call", n |-> f]

RECURSIVE SelectKind(_, _)
SelectKind(src, kind) ==
    IF src = <<>> THEN <<>>
    ELSE IF Head(src).k = kind THEN <<Head(src).n>> \o SelectKind(Tail(src), kind)
    ELSE SelectKind(Tail(src), kind)

\* reTemplateTag.FindAllString, each reduced to its submatch 1 (the target)
TemplateTags(src) == SelectKind(src, "template")

\* the names captured by reDefineTag, in source order
DefineTags(src) == SelectKind(src, "define")

\* Funcs(funcMap).Parse accepts the source: its syntax is right and every
\* function it calls is in funcMap
ParseOK(src, funcMap) ==
    \A i \in 1..Len(src) :
        /\ src[i].k # "bad"
        /\ src[i].k = "call" => src[i].n \in funcMap

----------------------------------------------------------------------------
(* The directory tree *)

DirT == <<"/", "t">>
\* the same directory, written "/t/"
DirS == <<"/", "t", "/">>
\* a directory that does not exist
DirM == <<"/", "m">>

NameA == <<"a", ".", "h">>
NameB == <<"b", ".", "h">>
NameD == <<"d">>
NameN == <<"n", ".", "h">>
NameDN == <<"d", "/", "n", ".", "h">>
NameE == <<"e", ".", "x">>
\* a file that does not exist
NameZ == <<"z", ".", "h">>
\* a symbolic template name
NameX == <<"X">>

ExtH == <<".", "h">>
ExtX == <<".", "x">>

\* a function of Options.Funcs
FuncF == <<"f">>

SourcesA == { <<>>, <<Tmpl(NameB)>>, <<Tmpl(NameDN)>>, <<Tmpl(NameX)>>,
              <<Tmpl(NameB), Tmpl(NameDN)>>, <<Tmpl(NameDN), Tmpl(NameB)>>,
              <<Tmpl(NameE), Tmpl(NameB)>>, <<Def(NameX), Tmpl(NameB)>>,
              <<Def(NameX), Tmpl(NameX)>>, <<Def(NameX), Def(NameX)>> }

SourcesB == { <<>>, <<Text>>, <<Bad>>, <<Call(FuncF)>>, <<Def(NameX)>>,
              <<Tmpl(NameA)>>, <<Tmpl(NameB)>>, <<Tmpl(NameDN)>>,
              <<Tmpl(NameZ)>>, <<Def(NameX), Tmpl(NameX)>> }

SourcesN == { <<Text>>, <<Def(NameX)>>, <<Tmpl(NameA)>> }

SourceE == <<Text>>

\* the contents that vary from tree to tree
Worlds == [a : SourcesA, b : SourcesB, n : SourcesN]

File(src) == [dir |-> FALSE, names |-> <<>>, src |-> src]
Dir(names) == [dir |-> TRUE, names |-> names, src |-> <<>>]

\* the nodes on disk by cleaned absolute path; /t holds a.h, b.h, d/n.h, e.x
Disk(w) ==
    (DirT :> Dir(<<NameA, NameB, NameD, NameE>>))
    @@ (filepathJoin(DirT, NameA) :> File(w.a))
    @@ (filepathJoin(DirT, NameB) :> File(w.b))
    @@ (filepathJoin(DirT, NameD) :> Dir(<<NameN>>))
    @@ (filepathJoin(DirT, NameDN) :> File(w.n))
    @@ (filepathJoin(DirT, NameE) :> File(SourceE))

\* os.Lstat of a cleaned path succeeds
Exists(cleaned) == cleaned \in DOMAIN world

\* ioutil.ReadFile of a cleaned path: [err, val]
ReadFile(cleaned) ==
    IF Exists(cleaned) /\ ~world[cleaned].dir
    THEN [err |-> "nil", val |-> world[cleaned].src]
    ELSE [err |-> "io", val |-> <<>>]

RECURSIVE WalkNames(_, _)
RECURSIVE WalkRec(_)
\* the callback for an existing path, then for the entries of the node there
WalkNode(path, node) ==
    <<[path |-> path, err |-> FALSE]>>
    \o (IF node.dir THEN WalkNames(path, node.names) ELSE <<>>)

\* filepath.Walk below an existing path: the path as given, then its entries
\* in order, each as filepath.Join(path, name)
WalkRec(path) == WalkNode(path, world[filepathClean(path)])

WalkNames(path, names) ==
    IF names = <<>> THEN <<>>
    ELSE WalkRec(filepathJoin(path, Head(names))) \o WalkNames(path, Tail(names))

\* the calls filepath.Walk makes to its callback: (path, lstat error)
filepathWalk(root) ==
    IF Exists(filepathClean(root)) THEN WalkRec(root)
    ELSE <<[path |-> root, err |-> TRUE]>>

----------------------------------------------------------------------------
(* utils.go *)

\* utils.go:9-11; [ok, val], ok is FALSE when the slice expression is out of
\* range
generateTemplateName(base, path) ==
    IF Len(base) + 1 > Len(path) THEN [ok |-> FALSE, val |-> <<>>]
    ELSE [ok |-> TRUE, val |-> filepathToSlash(SliceFrom(path, Len(base) + 1))]

\* utils.go:16-25 on the result b of ReadFile: [err, val]
ContentOf(b) ==
    IF b.err # "nil" THEN [err |-> b.err, val |-> <<>>]
    ELSE IF Len(b.val) < 1 THEN [err |-> "empty", val |-> <<>>]
    ELSE [err |-> "nil", val |-> b.val]

\* [err, val]
file_content(path) == ContentOf(ReadFile(filepathClean(path)))

inExtensions(ext) == \E i \in 1..Len(exts) : exts[i] = ext

----------------------------------------------------------------------------
(* add, renders.go:117-160 *)

\* a check that looks at the latest entry only
InCacheLastOnly(c, name) == c # <<>> /\ c[Len(c)].Name = name

\* renders.go:126-136: alreadyIncluded
InCache(c, name) == \E i \in 1..Len(c) : c[i].Name = name

\* the target of a "template" tag is taken for a symbolic name
IsRegularDef(templatePath) ==
    ~stringsContains(templatePath, filepathExt(templatePath))

\* what add works on: the two globals it writes, its return value (err), a
\* run-time panic raised below it, the recursion budget being exceeded, the
\* paths whose file_content failed and the paths whose content it appended
AddState(c, defs) ==
    [cache |-> c, defs |-> defs, err |-> "nil", panicked |-> FALSE,
     overflow |-> FALSE, failed |-> {}, loaded |-> {}]

RECURSIVE add(_, _, _)
RECURSIVE addTags(_, _, _)

\* renders.go:120-159, with the results of lines 119 and 124
addLoaded(path, st, fuel, tplSrc, tplName) ==
    IF tplSrc.err # "nil"
    THEN [st EXCEPT !.err = tplSrc.err, !.failed = @ \cup {path}]
    ELSE IF ~tplName.ok THEN [st EXCEPT !.panicked = TRUE]
    ELSE IF InCache(st.cache, tplName.val) THEN [st EXCEPT !.err = "nil"]
    ELSE [addTags(TemplateTags(tplSrc.val),
                  [st EXCEPT !.cache =
                       Append(@, [Name |-> tplName.val, Src |-> tplSrc.val]),
                             !.loaded = @ \cup {path}],
                  fuel)
          EXCEPT !.err = "nil"]

add(path, st, fuel) ==
    IF fuel = 0 THEN [st EXCEPT !.overflow = TRUE]
    ELSE addLoaded(path, st, fuel, file_content(path),
                   generateTemplateName(basePath, path))

\* the loop of renders.go:146-157 over the remaining "template" tags
addTags(tags, st, fuel) ==
    IF tags = <<>> \/ st.panicked \/ st.overflow THEN st
    ELSE IF IsRegularDef(Head(tags))
    THEN addTags(Tail(tags), [st EXCEPT !.defs = Append(@, Head(tags))], fuel)
    ELSE addTags(Tail(tags),
                 add(filepathJoin(basePath, Head(tags)), st, fuel - 1),
                 fuel)

----------------------------------------------------------------------------
(* loadTemplates: resolver, renders.go:64-87 *)

Invalidated == <<"_", "i", "n", "v", "a", "l", "i", "d", "a", "t", "e", "d", "_", "#">>

\* fmt.Sprintf("%s_invalidated_#%d", name, defineIdx)
PlaceholderName(name, defineIdx) == name \o Invalidated \o Itoa(defineIdx)

RECURSIVE RewriteSrc(_, _, _, _)
\* reDefineTag.ReplaceAllStringFunc over one source for the name t, with the
\* closure's found and defineIdx: [src, found, defineIdx]
RewriteSrc(src, t, found, defineIdx) ==
    IF src = <<>> THEN [src |-> <<>>, found |-> found, defineIdx |-> defineIdx]
    ELSE LET raw == Head(src) IN
         IF raw.k # "define" \/ raw.n # t
         THEN LET r == RewriteSrc(Tail(src), t, found, defineIdx)
              IN  [r EXCEPT !.src = <<raw>> \o @]
         ELSE IF ~found
         THEN LET r == RewriteSrc(Tail(src), t, TRUE, defineIdx)
              IN  [r EXCEPT !.src = <<raw>> \o @]
         ELSE LET r == RewriteSrc(Tail(src), t, found, defineIdx + 1)
              IN  [r EXCEPT !.src =
                       <<Def(PlaceholderName(raw.n, defineIdx + 1))>> \o @]

RECURSIVE ResolveName(_, _, _, _)
\* one fragment rewritten to r, then the rest of the cache
ResolveNext(c, t, r) ==
    <<[Name |-> Head(c).Name, Src |-> r.src]>>
    \o ResolveName(Tail(c), t, r.found, r.defineIdx)

\* the loop over the cache for one name t (renders.go:69-86)
ResolveName(c, t, found, defineIdx) ==
    IF c = <<>> THEN <<>>
    ELSE ResolveNext(c, t, RewriteSrc(Head(c).Src, t, found, defineIdx))

RECURSIVE Resolve(_, _)
\* the loop over regularTemplateDefs (renders.go:65-87)
Resolve(c, defs) ==
    IF defs = <<>> THEN c
    ELSE Resolve(ResolveName(c, Head(defs), FALSE, 0), Tail(defs))

----------------------------------------------------------------------------
(* loadTemplates: compositor, renders.go:89-105 *)

NilTemplate == [root |-> <<>>, tmpls |-> <<>>, funcs |-> {}]

\* template.Must panics on the first source that does not parse
ComposeOK(c, funcMap) == \A i \in 1..Len(c) : ParseOK(c[i].Src, funcMap)

\* the unit: rooted at the first fragment's name, every fragment registered
\* under its name, in cache order
Compose(c, funcMap) ==
    IF c = <<>> THEN NilTemplate
    ELSE [root |-> c[1].Name, tmpls |-> c, funcs |-> funcMap]

\* the cache at the end of a pass (renders.go:110)
ClearCache(c) == SubSeq(c, 1, 0)

----------------------------------------------------------------------------
(* Callers *)

Callers == {"c1", "c2"}
NoOne == "none"

OptH == [Directory |-> DirT, Extensions |-> <<ExtH>>, Funcs |-> {}]
\* the same as OptH with a function map
OptF == [Directory |-> DirT, Extensions |-> <<ExtH>>, Funcs |-> {FuncF}]
\* a directory that does not exist
OptM == [Directory |-> DirM, Extensions |-> <<ExtX>>, Funcs |-> {}]

\* the same directory as OptH, written with a trailing separator
OptS == [Directory |-> DirS, Extensions |-> <<ExtH>>, Funcs |-> {}]

OptionsSet == {OptH, OptF, OptM, OptS}

EmptyMap == <<>>

NoPass == [caller |-> NoOne, path |-> <<>>, base |-> <<>>, before |-> <<>>,
           added |-> <<>>, resolved |-> <<>>, failed |-> {}, loaded |-> {},
           overflow |-> FALSE, stage |-> "none", outcome |-> "none"]

NoRet == [templates |-> EmptyMap, err |-> "nil"]

\* the trees walked by two callers at once
ConcWorlds ==
    { [a |-> <<Tmpl(NameB), Def(NameX)>>, b |-> <<Tmpl(NameA)>>, n |-> <<Text>>],
      [a |-> <<Tmpl(NameB)>>, b |-> <<Bad>>, n |-> <<Def(NameX)>>] }

InitWith(ws, cs, os) ==
    /\ world \in {Disk(w) : w \in ws}
    /\ callers = cs
    /\ configs = os
    /\ cache = <<>>
    /\ regularTemplateDefs = <<>>
    /\ basePath = <<>>
    /\ exts = <<>>
    /\ lock = NoOne
    /\ templates = EmptyMap
    /\ pc = [p \in Callers |-> "idle"]
    /\ opt = [p \in Callers |-> OptH]
    /\ localTemplates = [p \in Callers |-> EmptyMap]
    /\ walkList = [p \in Callers |-> <<>>]
    /\ ret = [p \in Callers |-> NoRet]
    /\ calls = 0
    /\ trouble = [p \in Callers |-> {}]
    /\ history = <<>>
    /\ lastPass = NoPass

\* one caller, every tree, every configuration
Init == InitWith(Worlds, {"c1"}, OptionsSet)

\* two callers with two configurations that differ in Directory, Extensions
\* and Funcs
InitConc == InitWith(ConcWorlds, Callers, {OptF, OptM})

----------------------------------------------------------------------------
(* Load and LoadWithFuncMap, renders.go:28-41; called by compile,           *)
(* macaron.go:82-93                                                        *)

\* renders.go:30 / 38: basePath = opt.Directory
SetBasePath(p, o) ==
    /\ pc[p] = "idle"
    /\ calls < MaxCalls
    /\ basePath' = o.Directory
    /\ opt' = [opt EXCEPT ![p] = o]
    /\ pc' = [pc EXCEPT ![p] = "exts"]
    /\ calls' = calls + 1
    /\ UNCHANGED <<world, callers, configs, cache, regularTemplateDefs, exts, lock,
                   templates, localTemplates, walkList, ret, trouble, history,
                   lastPass>>

\* compile takes this branch when len(options.Funcs) = 0
Load(p) ==
    \E o \in configs : o.Funcs = {} /\ SetBasePath(p, o)

\* compile takes this branch when len(options.Funcs) > 0
LoadWithFuncMap(p) ==
    \E o \in configs : o.Funcs # {} /\ SetBasePath(p, o)

\* renders.go:31 / 39: exts = opt.Extensions
SetExts(p) ==
    /\ pc[p] = "exts"
    /\ exts' = opt[p].Extensions
    /\ pc' = [pc EXCEPT ![p] = "lock"]
    /\ UNCHANGED <<world, callers, configs, cache, regularTemplateDefs, basePath, lock,
                   templates, opt, localTemplates, walkList, ret, calls,
                   trouble, history, lastPass>>

----------------------------------------------------------------------------
(* loadTemplates, renders.go:43-115 *)

\* a lock that is never waited for
LockFreeAlways(p) == TRUE

\* sync.Mutex.Lock succeeds
LockFree(p) == lock = NoOne

\* renders.go:44-49: take the lock, make the map, start the walk
Lock(p) ==
    /\ pc[p] = "lock"
    /\ LockFree(p)
    /\ lock' = p
    /\ localTemplates' = [localTemplates EXCEPT ![p] = EmptyMap]
    /\ walkList' = [walkList EXCEPT ![p] = filepathWalk(basePath)]
    /\ ret' = [ret EXCEPT ![p] = NoRet]
    /\ trouble' = [trouble EXCEPT ![p] = {}]
    /\ pc' = [pc EXCEPT ![p] = "walk"]
    /\ UNCHANGED <<world, callers, configs, cache, regularTemplateDefs, basePath, exts,
                   templates, opt, calls, history, lastPass>>

\* the record of a pass over path that ended in a panic at the given stage
\* ("add": in add or at line 61, "compose": at line 103 or 106)
Pass(p, path, a, resolved, stage) ==
    [caller |-> p, path |-> path, base |-> basePath, before |-> cache,
     added |-> a.cache, resolved |-> resolved, failed |-> a.failed,
     loaded |-> a.loaded, overflow |-> a.overflow, stage |-> stage,
     outcome |-> "panic"]

\* what a call of the walk callback leaves: how it ended (kind), the two
\* globals, the caller's map and the record of the pass
Outcome(kind, c, defs, tmpls, pass) ==
    [kind |-> kind, cache |-> c, defs |-> defs, templates |-> tmpls,
     pass |-> pass]

\* renders.go:89-111 on the resolved cache, with the result of line 106
composeAndStore(p, path, a, resolved, tname) ==
    IF ~ComposeOK(resolved, opt[p].Funcs) \/ ~tname.ok
    THEN Outcome("panic", resolved, a.defs, localTemplates[p],
                 Pass(p, path, a, resolved, "compose"))
    ELSE Outcome("ok", ClearCache(resolved), a.defs,
                 (tname.val :> Compose(resolved, opt[p].Funcs))
                 @@ localTemplates[p],
                 [Pass(p, path, a, resolved, "done") EXCEPT !.outcome = "ok"])

\* renders.go:60-111 with the result a of add
compilePass(p, path, a) ==
    IF a.overflow \/ a.panicked \/ a.err # "nil"
    THEN Outcome("panic", a.cache, a.defs, localTemplates[p],
                 Pass(p, path, a, a.cache, "add"))
    ELSE composeAndStore(p, path, a, Resolve(a.cache, a.defs),
                         generateTemplateName(basePath, path))

\* renders.go:51-111 with the result r of filepath.Rel
walkFnRel(p, path, r) ==
    IF r.err
    THEN Outcome("err", cache, regularTemplateDefs, localTemplates[p], lastPass)
    ELSE IF ~inExtensions(filepathExt(r.val))
    THEN Outcome("skip", cache, regularTemplateDefs, localTemplates[p], lastPass)
    ELSE compilePass(p, path,
                     add(path, AddState(cache, regularTemplateDefs), MaxDepth))

\* one call of the walk callback (renders.go:49-112) on path: it ends in
\* "err" (return err), "skip" (return nil at line 58), "panic" (line 61,
\* line 103 or a run-time panic) or "ok" (return nil at line 111)
WalkFnResult(p, path) == walkFnRel(p, path, filepathRel(basePath, path))

\* a finished call of Load as its caller saw it
Finished(p, outcome, r, trbl) ==
    [caller |-> p, opt |-> opt[p], outcome |-> outcome, err |-> r.err,
     templates |-> r.templates, trouble |-> trbl]

\* the fragment files (targets with an extension) whose load failed
FailedFiles(failed) == {f \in failed : filepathExt(f) # <<>>}

\* what went wrong in one call of the walk callback: the walk reported an
\* error for the entry, a fragment file did not load, the pass panicked
Trouble(entry, res) ==
    (IF entry.err THEN {"walk"} ELSE {})
    \cup (IF res.kind \in {"ok", "panic"} /\ FailedFiles(res.pass.failed) # {}
          THEN {"load"} ELSE {})
    \cup (IF res.kind = "panic" THEN {"pass"} ELSE {})
    \cup (IF res.kind = "err" THEN {"rel"} ELSE {})

\* one call of the walk callback; a panic unwinds through the deferred
\* Unlock (renders.go:45) and through compile, which assigns nothing
WalkFn(p) ==
    /\ pc[p] = "walk"
    /\ walkList[p] # <<>>
    /\ \E res \in {WalkFnResult(p, Head(walkList[p]).path)} :
       /\ cache' = res.cache
       /\ regularTemplateDefs' = res.defs
       /\ localTemplates' = [localTemplates EXCEPT ![p] = res.templates]
       /\ lastPass' = res.pass
       /\ walkList' = [walkList EXCEPT ![p] =
              IF res.kind \in {"skip", "ok"} THEN Tail(@) ELSE <<>>]
       /\ ret' = [ret EXCEPT ![p] =
              IF res.kind = "err" THEN [@ EXCEPT !.err = "rel"] ELSE @]
       /\ pc' = [pc EXCEPT ![p] = IF res.kind = "panic" THEN "idle" ELSE @]
       /\ lock' = IF res.kind = "panic" THEN NoOne ELSE lock
       /\ trouble' = [trouble EXCEPT ![p] = @ \cup Trouble(Head(walkList[p]), res)]
       /\ history' = IF res.kind = "panic"
                     THEN Append(history, Finished(p, "panic", NoRet, trouble'[p]))
                     ELSE history
    /\ UNCHANGED <<world, callers, configs, basePath, exts, templates, opt, calls>>

\* renders.go:114 and the deferred Unlock: return templates, err
Return(p) ==
    /\ pc[p] = "walk"
    /\ walkList[p] = <<>>
    /\ ret' = [ret EXCEPT ![p] = [@ EXCEPT !.templates = localTemplates[p]]]
    /\ lock' = NoOne
    /\ pc' = [pc EXCEPT ![p] = "publish"]
    /\ UNCHANGED <<world, callers, configs, cache, regularTemplateDefs, basePath, exts,
                   templates, opt, localTemplates, walkList, calls, trouble,
                   history, lastPass>>

----------------------------------------------------------------------------
(* compile, macaron.go:82-93 *)

\* macaron.go:86 / 89: templates, tmplErr = Load(options)
compile(p) ==
    /\ pc[p] = "publish"
    /\ templates' = ret[p].templates
    /\ history' = Append(history, Finished(p, "returned", ret[p], trouble[p]))
    /\ pc' = [pc EXCEPT ![p] = "idle"]
    /\ UNCHANGED <<world, callers, configs, cache, regularTemplateDefs, basePath, exts,
                   lock, opt, localTemplates, walkList, ret, calls, trouble,
                   lastPass>>

----------------------------------------------------------------------------

Next ==
    \/ \E p \in callers : Load(p)
    \/ \E p \in callers : LoadWithFuncMap(p)
    \/ \E p \in callers : SetExts(p)
    \/ \E p \in callers : Lock(p)
    \/ \E p \in callers : WalkFn(p)
    \/ \E p \in callers : Return(p)
    \/ \E p \in callers : compile(p)

Spec == Init /\ [][Next]_vars

SpecConc == InitConc /\ [][Next]_vars

----------------------------------------------------------------------------
(* The resolver alone: renders.go:64-87 on any cache and any list *)

\* a second symbolic template name
NameY == <<"Y">>
\* a template name that is spelled like the first placeholder of X
NameP == PlaceholderName(NameX, 1)

SeqsUpTo(S, n) == UNION {[1..m -> S] : m \in 0..n}

\* the sources of the fragments: "define" tags and text
ResolverSources == SeqsUpTo({Def(NameX), Def(NameY), Def(NameP), Text}, MaxSrc)

\* the caches: the fragments a.h, b.h, ... with any of the sources
ResolverCaches ==
    UNION {[1..m -> ResolverSources] : m \in 1..MaxFrags}

FragmentNames == <<NameA, NameB, NameDN>>

\* the cache with the sources srcs
CacheOf(srcs) == [i \in 1..Len(srcs) |-> [Name |-> FragmentNames[i], Src |-> srcs[i]]]

\* the symbolic reference lists: a name may be listed twice
ResolverLists == SeqsUpTo({NameX, NameY}, 2)

InitResolver ==
    /\ world = Disk([a |-> <<Text>>, b |-> <<Text>>, n |-> <<Text>>])
    /\ callers = {}
    /\ configs = {}
    /\ cache \in {CacheOf(srcs) : srcs \in ResolverCaches}
    /\ regularTemplateDefs \in ResolverLists
    /\ basePath = DirT
    /\ exts = <<ExtH>>
    /\ lock = NoOne
    /\ templates = EmptyMap
    /\ pc = [p \in Callers |-> "idle"]
    /\ opt = [p \in Callers |-> OptH]
    /\ localTemplates = [p \in Callers |-> EmptyMap]
    /\ walkList = [p \in Callers |-> <<>>]
    /\ ret = [p \in Callers |-> NoRet]
    /\ calls = 0
    /\ trouble = [p \in Callers |-> {}]
    /\ history = <<>>
    /\ lastPass = NoPass

\* renders.go:64-87 on the cache and the list as they are
ResolverStep ==
    /\ lastPass.stage = "none"
    /\ cache' = Resolve(cache, regularTemplateDefs)
    /\ lastPass' = [NoPass EXCEPT !.base = basePath, !.before = cache,
                                  !.added = cache, !.resolved = cache',
                                  !.stage = "compose"]
    /\ UNCHANGED <<world, callers, configs, regularTemplateDefs, basePath, exts,
                   lock, templates, pc, opt, localTemplates, walkList, ret,
                   calls, trouble, history>>

NextResolver == ResolverStep

SpecResolver == InitResolver /\ [][NextResolver]_vars

----------------------------------------------------------------------------
(* Vocabulary of the properties *)

Range(f) == {f[i] : i \in DOMAIN f}

Names(c) == {c[i].Name : i \in 1..Len(c)}

UniqueNames(c) == \A i, j \in 1..Len(c) : c[i].Name = c[j].Name => i = j

\* the targets of all "template" tags in the fragments of c
AllTargets(c) == UNION {Range(TemplateTags(c[i].Src)) : i \in 1..Len(c)}

\* the symbolic names the fragments of c refer to: targets with no extension
SymbolicNames(c) == {t \in AllTargets(c) : filepathExt(t) = <<>>}

\* the places <<fragment, item>> of the "define" tags named x
DefinePlaces(c, x) ==
    {pl \in UNION {{<<i, j>> : j \in 1..Len(c[i].Src)} : i \in 1..Len(c)} :
        c[pl[1]].Src[pl[2]] = Def(x)}

\* place pl is not after place q in cache order
NotAfter(pl, q) == pl[1] < q[1] \/ (pl[1] = q[1] /\ pl[2] <= q[2])

\* the caller of the latest pass is in a walk
PassReturned == lastPass.caller \in Callers /\ pc[lastPass.caller] = "walk"

\* the resolver of the latest pass has run
ResolverRan == lastPass.stage \in {"compose", "done"}

----------------------------------------------------------------------------
(* C1 *)

\* C1: in every pass, once the resolver has run, the cached fragments hold at
\* most one "define" still named X for every symbolic name X they refer to,
\* and it is the first one in cache order.
C1_FirstWinsShadowing ==
    ResolverRan =>
        \A x \in SymbolicNames(lastPass.resolved) :
            /\ Cardinality(DefinePlaces(lastPass.resolved, x)) <= 1
            /\ \A pl \in DefinePlaces(lastPass.resolved, x) :
                   \A q \in DefinePlaces(lastPass.added, x) : NotAfter(pl, q)

----------------------------------------------------------------------------
(* C2 *)

\* C2: a pass in which a fragment file failed to load (empty or unreadable),
\* at the top level or below a "template" tag, never completes with a unit.
C2_LoadFailureAbortsPass ==
    lastPass.outcome = "ok" => FailedFiles(lastPass.failed) = {}

----------------------------------------------------------------------------
(* C3 *)

\* C3: a Load in which the pass of a top-level file failed comes back to its
\* caller as a returned error, with no mapping entries.
C3_FailureReturnedAsError ==
    \A i \in 1..Len(history) :
        "pass" \in history[i].trouble =>
            /\ history[i].outcome = "returned"
            /\ history[i].err # "nil"
            /\ history[i].templates = EmptyMap

----------------------------------------------------------------------------
(* C4 *)

\* nothing went wrong in the Load h
FullySuccessful(h) ==
    h.outcome = "returned" /\ h.err = "nil" /\ h.trouble = {}

RECURSIVE LastGood(_)
\* the mapping of the most recent fully successful Load, if any
LastGood(hist) ==
    IF hist = <<>> THEN EmptyMap
    ELSE IF FullySuccessful(hist[Len(hist)]) THEN hist[Len(hist)].templates
    ELSE LastGood(SubSeq(hist, 1, Len(hist) - 1))

\* C4: the published mapping is always the result of the most recent fully
\* successful compile; a compile in which something failed publishes nothing.
C4_AllOrNothingPublication == templates = LastGood(history)

----------------------------------------------------------------------------
(* C5 *)

\* the files the file f includes: the paths of its "template" targets with an
\* extension that are readable and not empty
IncludedFiles(base, f) ==
    {filepathJoin(base, t) :
        t \in {u \in Range(TemplateTags(world[f].src)) :
                  /\ filepathExt(u) # <<>>
                  /\ file_content(filepathJoin(base, u)).err = "nil"}}

RECURSIVE ReachFrom(_, _, _)
\* the files reachable from the frontier, seen included
ReachFrom(base, frontier, seen) ==
    IF frontier = {} THEN seen
    ELSE ReachFrom(base,
                   UNION {IncludedFiles(base, f) : f \in frontier}
                       \ (seen \cup frontier),
                   seen \cup frontier)

\* the files reachable from the entry file of the latest pass
Reachable == ReachFrom(lastPass.base, {lastPass.path}, {})

\* the cache of the latest pass holds the fragment of file f: the pass has
\* appended it, or it was there, under f's root-relative name, from the start
Holds(f) ==
    \/ f \in lastPass.loaded
    \/ \E i \in 1..Len(lastPass.before) :
           /\ lastPass.before[i].Name = filepathRel(lastPass.base, f).val
           /\ lastPass.before[i].Src = world[f].src

\* C5: on every include graph, cycles and self-inclusion included, add on the
\* entry file returns within its recursion budget, and when it returns nil
\* the cache holds the fragment of every file reachable from the entry.
C5_CycleSafeClosure ==
    lastPass.stage # "none" =>
        /\ ~lastPass.overflow
        /\ (lastPass.stage # "add" /\ PassReturned)
               => \A f \in Reachable : Holds(f)

----------------------------------------------------------------------------
(* C6 *)

\* add on a file whose name the latest pass has cached leaves that cache as
\* it is
AddAgainIsNoOp ==
    \A f \in {g \in DOMAIN world : ~world[g].dir} :
        generateTemplateName(basePath, f).val \in Names(lastPass.added)
            => add(f, AddState(lastPass.added, <<>>), MaxDepth).cache
                   = lastPass.added

\* C6: no two entries of the cache have the same name, in the cache, in the
\* cache a pass has filled and in every unit built from it; an add for a name
\* already cached leaves the cache unchanged.
C6_CacheNamesUnique ==
    /\ UniqueNames(cache)
    /\ UniqueNames(lastPass.added)
    /\ \A p \in Callers : \A k \in DOMAIN localTemplates[p] :
           UniqueNames(localTemplates[p][k].tmpls)
    /\ (ResolverRan /\ PassReturned /\ lastPass.base = basePath)
           => AddAgainIsNoOp

\* B (d/n.h) is included by both A (a.h) and C (b.h) in the pass of a.h
C6_Witness ==
    /\ lastPass.outcome = "ok"
    /\ lastPass.base = basePath
    /\ Len(lastPass.added) = 3
    /\ lastPass.added[1].Name = NameA
    /\ \E i, j \in 1..3 :
           /\ i # j
           /\ NameDN \in Range(TemplateTags(lastPass.added[i].Src))
           /\ NameDN \in Range(TemplateTags(lastPass.added[j].Src))
    /\ Cardinality({i \in 1..3 : lastPass.added[i].Name = NameDN}) = 1

----------------------------------------------------------------------------
(* C7 *)

\* C7: two consecutive Loads with equal Options on the unchanged tree return
\* the same mapping: the same keys and under each key the same fragment
\* names with the same sources in the same order.
C7_IdempotentRecompile ==
    \A i \in 1..(Len(history) - 1) :
        ( /\ history[i].outcome = "returned"
          /\ history[i + 1].outcome = "returned"
          /\ history[i].opt = history[i + 1].opt )
        => history[i].templates = history[i + 1].templates

----------------------------------------------------------------------------
(* C8 *)

\* the cleaned path g lies below the directory dir
Below(dir, g) ==
    /\ Len(Elems(dir)) < Len(Elems(g))
    /\ SubSeq(Elems(g), 1, Len(Elems(dir))) = Elems(dir)

\* the regular files below o.Directory whose extension o.Extensions lists,
\* each by its path relative to o.Directory
ExpectedKeys(o) ==
    {filepathRel(o.Directory, g).val :
        g \in {f \in DOMAIN world :
                  /\ ~world[f].dir
                  /\ Below(o.Directory, f)
                  /\ filepathExt(f) \in Range(o.Extensions)}}

\* C8: the mapping a Load returns has exactly one entry for each regular file
\* under the root with a configured extension, keyed by its canonical name,
\* and no other entry.
C8_OutputMappingCoverage ==
    \A p \in callers :
        pc[p] = "publish" => DOMAIN ret[p].templates = ExpectedKeys(opt[p])

----------------------------------------------------------------------------
(* C9 *)

\* C9: whenever the pass of a top-level file starts, also in a Load that
\* follows a failed one, the fragment cache is empty.
C9_CacheEmptyAtPassStart == lastPass.before = <<>>

----------------------------------------------------------------------------
(* C10 *)

\* C10: a call that is in the walk-and-compile section holds the lock, at
\* every point of its walk; so at most one call is in the section and only
\* that call touches the cache and the symbolic reference list.
C10_MutualExclusion ==
    /\ [](\A p \in Callers : pc[p] = "walk" => lock = p)
    /\ [][(cache' # cache \/ regularTemplateDefs' # regularTemplateDefs)
            => \E p \in Callers : lock = p /\ pc[p] = "walk"]_vars

\* one call is between two files of its walk while the other waits to lock
C10_Witness ==
    \E p, q \in Callers :
        /\ p # q
        /\ pc[p] = "walk"
        /\ walkList[p] # <<>>
        /\ DOMAIN localTemplates[p] # {}
        /\ pc[q] = "lock"

----------------------------------------------------------------------------
(* C11 *)

\* the path of file f relative to the root base, with forward slashes
CanonicalName(base, f) == filepathToSlash(filepathRel(base, f).val)

\* C11: for every configured root string, the name generateTemplateName gives
\* to a file the latest pass has read (the walked file or an included one) is
\* the file's path relative to the root, with forward slashes and the
\* extension kept.
C11_PathCanonicalization ==
    \A f \in lastPass.loaded :
        generateTemplateName(lastPass.base, f)
            = [ok |-> TRUE, val |-> CanonicalName(lastPass.base, f)]

----------------------------------------------------------------------------
(* C12 *)

\* C12: when add has returned in a pass, every extension-less target that a
\* cached fragment refers to is in the symbolic reference list, and no path
\* without an extension has been read as a file.
C12_TargetClassification ==
    ResolverRan =>
        /\ SymbolicNames(lastPass.added) \subseteq Range(regularTemplateDefs)
        /\ \A f \in lastPass.failed \cup lastPass.loaded : filepathExt(f) # <<>>

----------------------------------------------------------------------------
(* C13 *)

\* the places of all items of the fragments of c
Places(c) == UNION {{<<i, j>> : j \in 1..Len(c[i].Src)} : i \in 1..Len(c)}

\* the item of c at place pl
ItemAt(c, pl) == c[pl[1]].Src[pl[2]]

\* place pl is before place q in cache order
Before(pl, q) == NotAfter(pl, q) /\ pl # q

\* the places the resolver has written to
Rewritten == {pl \in Places(lastPass.added) :
                 ItemAt(lastPass.resolved, pl) # ItemAt(lastPass.added, pl)}

\* the template names of the unit apart from the one defined at place pl:
\* the names of the other "define" tags and the names of the fragments
OtherNames(c, pl) ==
    {ItemAt(c, q).n : q \in {u \in Places(c) : u # pl /\ ItemAt(c, u).k = "define"}}
    \cup Names(c)

\* the first "define" of t in the cache the resolver was given
IsFirst(t, pl) ==
    /\ pl \in DefinePlaces(lastPass.added, t)
    /\ \A q \in DefinePlaces(lastPass.added, t) : NotAfter(pl, q)

----------------------------------------------------------------------------
(* C14 *)

RECURSIVE VisitFile(_, _, _)
RECURSIVE VisitTargets(_, _, _)
\* the files in depth-first pre-order from file f, behind those seen
VisitFile(base, f, seen) ==
    IF f \in Range(seen) THEN seen
    ELSE VisitTargets(base, TemplateTags(world[f].src), Append(seen, f))

\* the same over the "template" targets of one file, left to right; a target
\* counts when it has an extension and its file is readable and not empty
VisitTargets(base, targets, seen) ==
    IF targets = <<>> THEN seen
    ELSE IF \/ filepathExt(Head(targets)) = <<>>
            \/ file_content(filepathJoin(base, Head(targets))).err # "nil"
    THEN VisitTargets(base, Tail(targets), seen)
    ELSE VisitTargets(base, Tail(targets),
                      VisitFile(base, filepathJoin(base, Head(targets)), seen))

\* the sources of the fragments of c, in cache order
SourcesOf(c) == [i \in 1..Len(c) |-> c[i].Src]

\* the sources the pass of file f is to cache: f's, then its dependencies'
ExpectedSources(base, f) ==
    LET order == VisitFile(base, f, <<>>)
    IN  [i \in 1..Len(order) |-> world[order[i]].src]

\* C14: when add has returned in a pass, the entry fragment is at cache index
\* 0 and the file-backed dependencies follow in depth-first pre-order of the
\* "template" tags, each fragment before the fragments it includes and each
\* file once.
C14_CacheInsertionOrder ==
    (ResolverRan /\ PassReturned) =>
        SourcesOf(lastPass.added) = ExpectedSources(lastPass.base, lastPass.path)

----------------------------------------------------------------------------
(* C15 *)

\* the key the latest pass has stored its unit under (renders.go:106)
PassKey == generateTemplateName(lastPass.base, lastPass.path).val

\* the fragments the latest pass has itself cached
OwnFragments == SubSeq(lastPass.added, Len(lastPass.before) + 1, Len(lastPass.added))

\* C15: in the mapping a Load is building, after any earlier Loads, the unit
\* the latest pass has stored under its key K is rooted at the template named
\* K, and the names registered in it are exactly those of the fragments
\* cached during that pass.
C15_UnitRootAndContents ==
    ( /\ lastPass.outcome = "ok"
      /\ PassReturned
      /\ PassKey \in DOMAIN localTemplates[lastPass.caller] )
    => LET unit == localTemplates[lastPass.caller][PassKey]
       IN  /\ unit.root = PassKey
           /\ Names(unit.tmpls) = Names(OwnFragments)

\* C16: a Load during whose walk filepath.Walk reported an error for the
\* root or for an entry does not return a nil error to its caller.
C16_WalkErrorsReturned ==
    \A i \in 1..Len(history) :
        ( /\ history[i].outcome = "returned"
          /\ "walk" \in history[i].trouble )
        => history[i].err # "nil"

\* C17: while a call of Load walks, the root and the extension set in use
\* are those of its own Options, and every key of the mapping it returns is
\* the name, relative to its own Directory, of a file below that Directory
\* with one of its own Extensions.
C17_OwnConfiguration ==
    \A p \in callers :
        /\ pc[p] = "walk" =>
               /\ basePath = opt[p].Directory
               /\ exts = opt[p].Extensions
        /\ pc[p] = "publish" =>
               DOMAIN ret[p].templates \subseteq ExpectedKeys(opt[p])

====
